---- MODULE Spec2Model ----
(***************************************************************************)
(* Model of src/pty/wdd.py: psi_multiply, fft_wigner_probe and wdd.        *)
(*                                                                         *)
(* Numbers.  Every complex number of the model is an element of the ring   *)
(* Z[z], z = exp(i*pi/6), written <<a, b, c, d>> for a + b z + c z^2 +     *)
(* d z^3 with z^4 = z^2 - 1.  The ring holds i = z^3 and all the roots of  *)
(* unity the discrete Fourier transforms of length 1, 2, 3, 4 need, so     *)
(* products, conjugates and transforms are computed exactly.               *)
(*                                                                         *)
(* Tensors.  A 4D array is [shape |-> <<n0,n1,n2,n3>>, el |-> f], f a      *)
(* function on the 0-based index tuples; a 2D array likewise.              *)
(***************************************************************************)
EXTENDS Integers, Sequences, FiniteSets, TLC

\* ------------------------------------------------------------ bounds
\* Largest length of an array axis.
MaxDim == 2
\* Largest length of a scan or detector axis of the dataset given to wdd.
MaxAxis == 3
\* Input tensors are drawn from the patterns 0..MaxSeed.
MaxSeed == 1

\* ------------------------------------------------ exact complex numbers
CZero == <<0, 0, 0, 0>>
COne == <<1, 0, 0, 0>>
CI == <<0, 0, 0, 1>>

CInt(n) == <<n, 0, 0, 0>>

CAdd(x, y) == <<x[1] + y[1], x[2] + y[2], x[3] + y[3], x[4] + y[4]>>

CScale(n, x) == <<n * x[1], n * x[2], n * x[3], n * x[4]>>

\* Product of two polynomials in z of degree 3, reduced by z^4 = z^2 - 1,
\* z^5 = z^3 - z, z^6 = -1.
CMul(x, y) ==
    LET p0 == x[1] * y[1]
        p1 == x[1] * y[2] + x[2] * y[1]
        p2 == x[1] * y[3] + x[2] * y[2] + x[3] * y[1]
        p3 == x[1] * y[4] + x[2] * y[3] + x[3] * y[2] + x[4] * y[1]
        p4 == x[2] * y[4] + x[3] * y[3] + x[4] * y[2]
        p5 == x[3] * y[4] + x[4] * y[3]
        p6 == x[4] * y[4]
    IN  <<p0 - p4 - p6, p1 - p5, p2 + p4, p3 + p5>>

\* np.conj: z -> z^11 = z - z^3, z^2 -> 1 - z^2, z^3 -> -z^3.
CConj(x) == <<x[1] + x[3], x[2], -x[3], -x[2] - x[4]>>

\* A number is real when it equals its conjugate; it is then a - d*sqrt(3).
IsReal(x) == CConj(x) = x

IsNonNegReal(x) ==
    /\ IsReal(x)
    /\ LET a == x[1]
           d == x[4]
       IN  \/ a >= 0 /\ d <= 0
           \/ a >= 0 /\ d > 0 /\ a * a >= 3 * d * d
           \/ a < 0 /\ d < 0 /\ 3 * d * d >= a * a

\* np.abs(x) ** 2, as the number x * conj(x).
AbsSq(x) == CMul(x, CConj(x))

\* z^k for any integer k.
ZetaPow(k) ==
    LET r == k % 12
        base == <<COne, <<0, 1, 0, 0>>, <<0, 0, 1, 0>>, <<0, 0, 0, 1>>,
                  <<-1, 0, 1, 0>>, <<0, -1, 0, 1>>>>
    IN  IF r < 6 THEN base[r + 1] ELSE CScale(-1, base[r - 6 + 1])

\* exp(2 pi i k / n), for the axis lengths n that divide 12.
RootOfUnity(n, k) == ZetaPow((12 \div n) * k)

RECURSIVE CSum(_, _)
\* Sum of f over the finite set S.
CSum(f, S) ==
    IF S = {} THEN CZero
    ELSE LET e == CHOOSE e \in S : TRUE
         IN  CAdd(f[e], CSum(f, S \ {e}))

RECURSIVE ISum(_, _)
ISum(f, S) ==
    IF S = {} THEN 0
    ELSE LET e == CHOOSE e \in S : TRUE
         IN  f[e] + ISum(f, S \ {e})

\* ------------------------------------------------------------ tensors
Dims == 1..MaxDim
Shapes4 == Dims \X Dims \X Dims \X Dims

Idx4(shape) ==
    (0..(shape[1] - 1)) \X (0..(shape[2] - 1)) \X (0..(shape[3] - 1)) \X (0..(shape[4] - 1))

Idx2(shape) == (0..(shape[1] - 1)) \X (0..(shape[2] - 1))

\* np.zeros(shape).astype(complex)
Zeros4(shape) == [shape |-> shape, el |-> [idx \in Idx4(shape) |-> CZero]]

\* The values input tensors are built from.
Palette == <<CZero, COne, CI, <<1, 0, 0, 1>>, <<2, 0, 0, -1>>, <<0, 1, 0, 0>>>>

\* Input tensor number seed of a shape.
Pattern4(shape, seed) ==
    [shape |-> shape,
     el |-> [idx \in Idx4(shape) |->
               Palette[((seed + idx[1] + 2 * idx[2] + 3 * idx[3] + 5 * idx[4]) % Len(Palette)) + 1]]]

VARIABLES
    data_1, data_2,      \* psi_multiply: the arguments
    mul,                 \* psi_multiply: [pc, ii, jj, out, stray]
    image_size,          \* fft_wigner_probe, wdd: the argument image_size
    intensity_param,     \* fft_wigner_probe: the argument intensity_param
    optics,              \* aperture_mrad, voltage, calibration_pm: which probe they give
    probeArgs,           \* make_probe: the numbers of positional arguments it accepts
    wig,                 \* fft_wigner_probe: [pc, fb, pending, el, writes, offset]
    data4D,              \* wdd: the argument data4D
    wdd                  \* wdd: the position pc and the locals computed so far

mulVars == <<data_1, data_2, mul>>
wigVars == <<image_size, intensity_param, optics, probeArgs, wig>>
wddVars == <<data4D, wdd>>
vars == <<data_1, data_2, mul, image_size, intensity_param, optics, probeArgs, wig, data4D, wdd>>

\* ------------------------------------------------------- psi_multiply
\* np.multiply(a, b) of two 2D slices broadcasts; the slice assignment
\* then broadcasts the product to the target slice's shape.  Both succeed
\* exactly when each leading axis of data_2 has data_1's length or length 1.
SliceBroadcasts(s1, s2) ==
    /\ s2[1] = s1[1] \/ s2[1] = 1
    /\ s2[2] = s1[2] \/ s2[2] = 1

\* data_2[:, :, ii, jj] exists.
SliceInRange(s2, ii, jj) == ii < s2[3] /\ jj < s2[4]

\* The element of data_2's slice that broadcasting pairs with (a, b).
BroadcastAt(d2, a, b, ii, jj) ==
    d2.el[<<IF d2.shape[1] = 1 THEN 0 ELSE a, IF d2.shape[2] = 1 THEN 0 ELSE b, ii, jj>>]

\* Line 38 with np.conj left out.
MultiplyNoConj(x, y) == CMul(x, y)

\* Line 38: one element of np.multiply(data_1[:,:,ii,jj], np.conj(data_2[:,:,ii,jj])).
MultiplyConj(x, y) == CMul(x, CConj(y))

\* Line 38: multiplied_data[:,:,ii,jj] = ...
WriteSlice(d1, d2, out, ii, jj) ==
    [idx \in Idx4(d1.shape) |->
        IF idx[3] = ii /\ idx[4] = jj
        THEN MultiplyConj(d1.el[idx], BroadcastAt(d2, idx[1], idx[2], ii, jj))
        ELSE out[idx]]

\* Lines 36-37: the position after (ii, jj); jj is the outer loop.
MulNext(shape, ii, jj) ==
    IF ii + 1 < shape[3] THEN <<ii + 1, jj>> ELSE <<0, jj + 1>>

\* stray: the palette number of the value an unchecked read returned (0: none yet).
MulStart(d1) == [pc |-> "loop", ii |-> 0, jj |-> 0, out |-> Zeros4(d1.shape).el, stray |-> 0]

\* One iteration of the loop of lines 36-38 under numpy's checked indexing.
MulIterate(d1, d2, m) ==
    IF m.jj >= d1.shape[4] THEN [m EXCEPT !.pc = "returned"]
    ELSE IF ~SliceInRange(d2.shape, m.ii, m.jj) THEN [m EXCEPT !.pc = "IndexError"]
    ELSE IF ~SliceBroadcasts(d1.shape, d2.shape) THEN [m EXCEPT !.pc = "ValueError"]
    ELSE LET nx == MulNext(d1.shape, m.ii, m.jj)
         IN  [m EXCEPT !.ii = nx[1], !.jj = nx[2],
                       !.out = WriteSlice(d1, d2, m.out, m.ii, m.jj)]

RECURSIVE MulRun(_, _, _)
MulRun(d1, d2, m) == IF m.pc = "loop" THEN MulRun(d1, d2, MulIterate(d1, d2, m)) ELSE m

\* psi_multiply(data_1, data_2): [pc |-> "returned", out |-> elements] or an error.
psi_multiply(d1, d2) == MulRun(d1, d2, MulStart(d1))

\* ------------------------------------------------------------ scalars
\* A positive real scalar sqrt(n / d), or inf (a division by zero).
ParamOne == [kind |-> "finite", n |-> 1, d |-> 1]
ParamTwo == [kind |-> "finite", n |-> 4, d |-> 1]
ParamInf == [kind |-> "inf", n |-> 1, d |-> 0]

\* --------------------------------------------------------- make_probe
\* gp.make_probe is not part of the sources.  It is a deterministic function
\* of the optical parameters and the size that returns a complex 2D tensor of
\* shape (width, height); a call with a number of positional arguments it
\* does not accept raises TypeError.
ProbeSignatures == {{4}, {5}, {4, 5}}

MakeProbeAccepts(sig, nargs) == nargs \in sig

\* The values of a probe: non-zero, and multiples of 4 so that the
\* interpolation of a shift by half a pixel stays in the ring.
ProbePalette == <<<<4, 0, 0, 0>>, <<0, 0, 0, 4>>, <<8, 0, 0, 0>>, <<0, 4, 0, 0>>, <<0, 0, 0, -4>>>>

MakeProbe(width, height, opt) ==
    [shape |-> <<width, height>>,
     el |-> [idx \in Idx2(<<width, height>>) |->
               ProbePalette[((opt + idx[1] + 2 * idx[2]) % Len(ProbePalette)) + 1]]]

\* ---------------------------------------------------- fft_wigner_probe
\* Lines 100-101 with an integer division: xpos = rows_x - (image_x // 2).
Offset2Floor(rows, n) == 2 * (rows - (n \div 2))

\* Lines 100-101: xpos = rows_x - (image_x/2), a true division; offsets are
\* kept in half pixels, Offset2 = 2 * xpos.
Offset2(rows, n) == 2 * rows - n

\* The sample of a 2D array at an integer index, zero outside the array
\* (scipy.ndimage.shift: mode='constant', cval=0).
At(arr, i, j) ==
    IF i >= 0 /\ i < arr.shape[1] /\ j >= 0 /\ j < arr.shape[2] THEN arr.el[<<i, j>>] ELSE CZero

\* The two samples an axis coordinate c2 (in half pixels) lies between; both
\* are the sample itself when the coordinate is a whole pixel.
Neighbours(c2) ==
    IF c2 % 2 = 0 THEN <<c2 \div 2, c2 \div 2>> ELSE <<(c2 - 1) \div 2, (c2 + 1) \div 2>>

CQuarter(x) == <<x[1] \div 4, x[2] \div 4, x[3] \div 4, x[4] \div 4>>

\* Line 102: scnd.interpolation.shift(arr, shift)[i, j] for a shift of
\* (s2x / 2, s2y / 2) pixels: the array sampled at (i, j) - shift.  A whole
\* pixel shift moves the samples; a half pixel shift interpolates between the
\* neighbouring samples (the mean of the neighbours stands for the spline).
ShiftAt(arr, s2x, s2y, i, j) ==
    LET nx == Neighbours(2 * i - s2x)
        ny == Neighbours(2 * j - s2y)
    IN  CQuarter(CAdd(CAdd(At(arr, nx[1], ny[1]), At(arr, nx[1], ny[2])),
                      CAdd(At(arr, nx[2], ny[1]), At(arr, nx[2], ny[2]))))

\* Line 96: fourier_beam = tb/intensity_param.  The finite divisor is kept
\* apart, in WignerScale; a division by inf gives zeros.
FourierBeam(tb, param) ==
    IF param.kind = "inf" THEN [tb EXCEPT !.el = [idx \in DOMAIN tb.el |-> CZero]] ELSE tb

\* wigner_beam is el * WignerScale[1] / WignerScale[2]: each slice is a
\* product of two values of tb/sqrt(n/d).
WignerScale(param) == IF param.kind = "inf" THEN <<1, 1>> ELSE <<param.d, param.n>>

\* Line 97.
WignerShape(image_x, image_y) == <<image_x, image_y, image_x, image_y>>

\* Lines 98-99 with the outer loop one short: range(image_x - 1).
WigPositionsShort(image_x, image_y) == (0..(image_x - 2)) \X (0..(image_y - 1))

\* Lines 98-99: the positions (rows_x, rows_y) the loops visit.
WigPositions(image_x, image_y) == (0..(image_x - 1)) \X (0..(image_y - 1))

\* Lines 100-103: convolved_beam[i, j] at position (rows_x, rows_y).
ConvolvedAt(fb, xpos2, ypos2, i, j) ==
    CMul(CConj(fb.el[<<i, j>>]), ShiftAt(fb, -xpos2, -ypos2, i, j))

\* Line 104: wigner_beam[:,:,rows_x,rows_y] = convolved_beam.
WigWriteSlice(fb, el, shape, rows_x, rows_y) ==
    LET xpos2 == Offset2(rows_x, shape[3])
        ypos2 == Offset2(rows_y, shape[4])
    IN  [idx \in Idx4(shape) |->
            IF idx[3] = rows_x /\ idx[4] = rows_y
            THEN ConvolvedAt(fb, xpos2, ypos2, idx[1], idx[2])
            ELSE el[idx]]

\* Lines 93-97.
WigStart(sig, opt, size, param) ==
    LET image_y == size[1]
        image_x == size[2]
        shape == WignerShape(image_x, image_y)
    IN  IF ~MakeProbeAccepts(sig, 5)
        THEN [pc |-> "TypeError", fb |-> MakeProbe(1, 1, 0), shape |-> shape, pending |-> {},
              el |-> Zeros4(shape).el,
              writes |-> [pos \in WigPositions(image_x, image_y) |-> 0],
              offset |-> [pos \in WigPositions(image_x, image_y) |-> <<>>]]
        ELSE [pc |-> "loop", fb |-> FourierBeam(MakeProbe(image_x, image_y, opt), param),
              shape |-> shape,
              pending |-> WigPositions(image_x, image_y),
              el |-> Zeros4(shape).el,
              writes |-> [pos \in WigPositions(image_x, image_y) |-> 0],
              offset |-> [pos \in WigPositions(image_x, image_y) |-> <<>>]]

\* Lines 100-104 for one position; writes and offset record what was done.
WigUnit(w, pos) ==
    [w EXCEPT !.pending = @ \ {pos},
              !.el = WigWriteSlice(w.fb, w.el, w.shape, pos[1], pos[2]),
              !.writes = [q \in DOMAIN @ |-> IF q = pos THEN @[q] + 1 ELSE @[q]],
              !.offset = [q \in DOMAIN @ |->
                            IF q = pos
                            THEN <<Offset2(pos[1], w.shape[3]), Offset2(pos[2], w.shape[4])>>
                            ELSE @[q]]]

\* The next position of the loops of lines 98-99 as written: rows_x outer.
FirstPending(pending) ==
    CHOOSE p \in pending : \A q \in pending : p[1] < q[1] \/ (p[1] = q[1] /\ p[2] <= q[2])

RECURSIVE WigRun(_)
WigRun(w) ==
    IF w.pc # "loop" THEN w
    ELSE IF w.pending = {} THEN [w EXCEPT !.pc = "returned"]
    ELSE WigRun(WigUnit(w, FirstPending(w.pending)))

\* fft_wigner_probe(...) run to its end.
fft_wigner_probe(sig, opt, size, param) == WigRun(WigStart(sig, opt, size, param))

WigIdleState == [WigStart({5}, 0, <<1, 1>>, ParamOne) EXCEPT !.pc = "idle"]

\* ---------------------------------------------------------------- wdd
\* np.fft.fft2 (sign = -1) and the sums of np.fft.ifft2 (sign = 1) over the
\* axes a and b (1-based places of the index tuple); ifft2's division by the
\* number of terms is kept in the tensor's den.
Dft2(t, a, b, sign) ==
    LET na == t.shape[a]
        nb == t.shape[b]
    IN  [t EXCEPT !.el =
            [idx \in Idx4(t.shape) |->
                CSum([mn \in (0..(na - 1)) \X (0..(nb - 1)) |->
                        CMul(t.el[[idx EXCEPT ![a] = mn[1], ![b] = mn[2]]],
                             CMul(RootOfUnity(na, sign * idx[a] * mn[1]),
                                  RootOfUnity(nb, sign * idx[b] * mn[2])))],
                     (0..(na - 1)) \X (0..(nb - 1)))]]

\* np.fft.fftshift over the axes a and b: out[k] = in[(k - n//2) mod n].
FftShift(t, a, b) ==
    LET na == t.shape[a]
        nb == t.shape[b]
    IN  [t EXCEPT !.el =
            [idx \in Idx4(t.shape) |->
                t.el[[idx EXCEPT ![a] = (idx[a] + na - (na \div 2)) % na,
                                 ![b] = (idx[b] + nb - (nb \div 2)) % nb]]]]

\* np.fft.ifftshift over the axes a and b: out[k] = in[(k + n//2) mod n].
IfftShift(t, a, b) ==
    LET na == t.shape[a]
        nb == t.shape[b]
    IN  [t EXCEPT !.el =
            [idx \in Idx4(t.shape) |->
                t.el[[idx EXCEPT ![a] = (idx[a] + (na \div 2)) % na,
                                 ![b] = (idx[b] + (nb \div 2)) % nb]]]]

\* np.fft.fftshift(np.fft.fft2(t, axes=(2,3)), axes=(2,3))
FftDetector(t) == FftShift(Dft2(t, 3, 4, -1), 3, 4)

\* np.fft.ifftshift(np.fft.ifft2(t, axes=(0,1)), axes=(0,1)); the tensor is
\* el * num / den.
IfftLeading(t) ==
    [IfftShift(Dft2(t, 1, 2, 1), 1, 2) EXCEPT !.den = @ * t.shape[1] * t.shape[2]]

\* np.conj of a tensor.
ConjTensor(t) == [t EXCEPT !.el = [idx \in DOMAIN t.el |-> CConj(t.el[idx])]]

\* np.abs(t) ** 2 of a tensor.
AbsSqTensor(t) ==
    [t EXCEPT !.el = [idx \in DOMAIN t.el |-> AbsSq(t.el[idx])],
              !.num = @ * @, !.den = @ * @]

\* Line 159: np.sum(np.mean(data4D, axis=(2,3))): the detector frame is
\* averaged at each scan position and the averages are summed, n / d.
DiffractogramIntensity(t) ==
    [n |-> ISum([sc \in (0..(t.shape[1] - 1)) \X (0..(t.shape[2] - 1)) |->
                   ISum([dt \in (0..(t.shape[3] - 1)) \X (0..(t.shape[4] - 1)) |->
                           t.el[<<sc[1], sc[2], dt[1], dt[2]>>][1]],
                        (0..(t.shape[3] - 1)) \X (0..(t.shape[4] - 1)))],
                (0..(t.shape[1] - 1)) \X (0..(t.shape[2] - 1))),
     d |-> t.shape[3] * t.shape[4]]

\* Line 160: (np.abs(electron_beam) ** 2).sum(), an integer for the probes
\* of the model.
MainbeamIntensity(beam) == ISum([idx \in DOMAIN beam.el |-> AbsSq(beam.el[idx])[1]], DOMAIN beam.el)

\* Line 161: (mainbeam_intensity/diffractogram_intensity) ** 0.5.  numpy
\* divides a positive float by zero to inf (a warning, no exception).
IntensityChanger(mainbeam, diffractogram) ==
    IF diffractogram.n = 0 THEN ParamInf
    ELSE [kind |-> "finite", n |-> mainbeam * diffractogram.d, d |-> diffractogram.n]

\* x < y for two real numbers of the ring.
LessReal(x, y) == x # y /\ IsNonNegReal(CAdd(y, CScale(-1, x)))

\* pu.sparse4D is not part of the sources.  It returns a tensor of the
\* input's shape: an element is zeroed where its magnitude reference is zero
\* or below the threshold, and passed through unchanged otherwise.  The
\* reference element is paired by broadcasting over the leading axes.
Sparse4D(t, ref, threshold) ==
    [t EXCEPT !.el =
        [idx \in Idx4(t.shape) |->
            LET r == BroadcastAt(ref, idx[1], idx[2], idx[3], idx[4])
            IN  IF r = CZero \/ LessReal(r, threshold) THEN CZero ELSE t.el[idx]]]

\* The thresholds sparse4D may determine from its reference.
Thresholds(ref) == {ref.el[idx] : idx \in DOMAIN ref.el}

\* The measured datasets: non-negative intensities; pattern 0 is all zero.
Data4D(shape, seed) ==
    [shape |-> shape, num |-> 1, den |-> 1,
     el |-> [idx \in Idx4(shape) |->
               IF seed = 0 THEN CZero
               ELSE CInt((seed + idx[1] + 2 * idx[2] + 3 * idx[3] + 5 * idx[4]) % 4)]]

NoTensor == [shape |-> <<0, 0, 0, 0>>, num |-> 1, den |-> 1, el |-> <<>>]

WddIdleState ==
    [pc |-> "idle", error |-> <<>>,
     diffractogram_intensity |-> [n |-> 0, d |-> 1], mainbeam_intensity |-> 0,
     intensity_changer |-> ParamOne,
     wigner_beam |-> NoTensor, dataIFT |-> NoTensor, inverse_wigner |-> NoTensor,
     multiplied |-> NoTensor, reference |-> NoTensor, Psi_Wigner |-> NoTensor,
     fixed |-> <<>>, index |-> <<>>, slice |-> <<>>]

WddUnused ==
    /\ data4D = Data4D(<<1, 1, 1, 1>>, 0)
    /\ wdd = WddIdleState

\* ------------------------------------- the state of a function not in use
WigUnused ==
    /\ image_size = <<1, 1>>
    /\ intensity_param = ParamOne
    /\ optics = 0
    /\ probeArgs = {5}
    /\ wig = WigIdleState

MulUnused ==
    /\ data_1 = Zeros4(<<1, 1, 1, 1>>)
    /\ data_2 = Zeros4(<<1, 1, 1, 1>>)
    /\ mul = [MulStart(data_1) EXCEPT !.pc = "idle"]

\* ------------------------------------------- fft_wigner_probe, stepwise
WigInit ==
    /\ image_size \in Dims \X Dims
    /\ intensity_param \in {ParamOne, ParamTwo}
    /\ optics \in 0..MaxSeed
    /\ probeArgs \in ProbeSignatures
    /\ wig = WigIdleState
    /\ MulUnused
    /\ WddUnused

\* Lines 93-97.
WigCall ==
    /\ wig.pc = "idle"
    /\ wig' = WigStart(probeArgs, optics, image_size, intensity_param)
    /\ UNCHANGED <<image_size, intensity_param, optics, probeArgs, mulVars, wddVars>>

\* Lines 98-104: one position.  numba.jit(parallel=True) may run the
\* iterations in any order, so any pending position may be the next.
WigPosition ==
    /\ wig.pc = "loop"
    /\ \E pos \in wig.pending : wig' = WigUnit(wig, pos)
    /\ UNCHANGED <<image_size, intensity_param, optics, probeArgs, mulVars, wddVars>>

\* Line 105.
WigReturn ==
    /\ wig.pc = "loop"
    /\ wig.pending = {}
    /\ wig' = [wig EXCEPT !.pc = "returned"]
    /\ UNCHANGED <<image_size, intensity_param, optics, probeArgs, mulVars, wddVars>>

WigNext == WigCall \/ WigPosition \/ WigReturn

WignerSpec == WigInit /\ [][WigNext]_vars

\* C5 as stated: for every image size the slice at the grid centre
\* (floor(n/2) along each axis) is computed with shift offset (0, 0) and
\* equals |probe|^2 elementwise.
C5_CentreSliceAnySize ==
    (wig.pc = "returned" /\ intensity_param = ParamOne) =>
        LET image_y == image_size[1]
            image_x == image_size[2]
            centre == <<image_x \div 2, image_y \div 2>>
            probe == MakeProbe(image_x, image_y, optics)
        IN  /\ wig.offset[centre] = <<0, 0>>
            /\ \A i \in 0..(image_x - 1), j \in 0..(image_y - 1) :
                  wig.el[<<i, j, centre[1], centre[2]>>] = AbsSq(probe.el[<<i, j>>])

\* C5 amended: when both dimensions of the image size are even, the slice at
\* (image_x/2, image_y/2) is computed with shift offset (0, 0) and equals
\* |probe|^2 elementwise; when a dimension is odd, no position of the grid
\* has shift offset (0, 0).
C5_CentreSliceEvenSize ==
    (wig.pc = "returned" /\ intensity_param = ParamOne) =>
        LET image_y == image_size[1]
            image_x == image_size[2]
            centre == <<image_x \div 2, image_y \div 2>>
            probe == MakeProbe(image_x, image_y, optics)
        IN  /\ (image_x % 2 = 0 /\ image_y % 2 = 0) =>
                  /\ wig.offset[centre] = <<0, 0>>
                  /\ \A i \in 0..(image_x - 1), j \in 0..(image_y - 1) :
                        wig.el[<<i, j, centre[1], centre[2]>>] = AbsSq(probe.el[<<i, j>>])
            /\ (image_x % 2 = 1 \/ image_y % 2 = 1) =>
                  \A pos \in DOMAIN wig.offset : wig.offset[pos] # <<0, 0>>

\* C5 witness: a returned tensor of an even image size, default normalization.
C5_Witness ==
    /\ wig.pc = "returned"
    /\ intensity_param = ParamOne
    /\ image_size = <<2, 2>>
    /\ wig.offset[<<1, 1>>] = <<0, 0>>
    /\ wig.el[<<0, 0, 1, 1>>] # CZero

\* C10, the returned tensor: every position of the grid was written exactly
\* once and holds conj(fb) * shift(fb, -offset), fb the scaled probe.
C10_Returned ==
    (wig.pc = "returned") =>
        LET image_y == image_size[1]
            image_x == image_size[2]
            fb == FourierBeam(MakeProbe(image_x, image_y, optics), intensity_param)
        IN  /\ DOMAIN wig.writes = (0..(image_x - 1)) \X (0..(image_y - 1))
            /\ DOMAIN wig.el = Idx4(<<image_x, image_y, image_x, image_y>>)
            /\ \A x \in 0..(image_x - 1), y \in 0..(image_y - 1) :
                  /\ wig.writes[<<x, y>>] = 1
                  /\ \A i \in 0..(image_x - 1), j \in 0..(image_y - 1) :
                        wig.el[<<i, j, x, y>>] =
                            CMul(CConj(fb.el[<<i, j>>]),
                                 ShiftAt(fb, -(2 * x - image_x), -(2 * y - image_y), i, j))

\* C10, one unit of work: it takes one pending position, changes no element
\* outside that position's slice and leaves the scaled probe as it was.
C10_UnitWritesOwnSlice ==
    (wig.pc = "loop" /\ wig'.pc = "loop" /\ wig' # wig) =>
        /\ wig'.fb = wig.fb
        /\ \E pos \in wig.pending :
              /\ wig'.pending = wig.pending \ {pos}
              /\ \A idx \in DOMAIN wig.el :
                    (<<idx[3], idx[4]>> # pos) => wig'.el[idx] = wig.el[idx]

\* C10: the units of work of fft_wigner_probe cover every position (x, y) of
\* [0, width) x [0, height) exactly once, each unit writes only the slice
\* wigner_beam[:, :, x, y] and leaves the scaled probe alone, and in whatever
\* order the units run the returned slice at (x, y) is
\* conj(probe) * shift(probe, (-(x - width/2), -(y - height/2))).
C10_AnyOrderSameTensor == []C10_Returned /\ [][C10_UnitWritesOwnSlice]_vars

\* C10 witness: a returned tensor of a non-square grid of several positions,
\* every position written once.
C10_Witness ==
    /\ wig.pc = "returned"
    /\ image_size = <<1, 2>>
    /\ intensity_param = ParamTwo
    /\ \A pos \in DOMAIN wig.writes : wig.writes[pos] = 1
    /\ \E idx \in DOMAIN wig.el : ~IsReal(wig.el[idx])

\* ------------------------------------------------------- wdd, stepwise
Axes == 1..MaxAxis

WddInit ==
    /\ image_size \in Axes \X Axes
    /\ optics \in 0..MaxSeed
    /\ probeArgs \in ProbeSignatures
    /\ \E scan \in Axes \X Axes, seed \in 0..MaxSeed :
          data4D = Data4D(<<scan[1], scan[2], image_size[1], image_size[2]>>, seed)
    /\ wdd = WddIdleState
    /\ intensity_param = ParamOne
    /\ wig = WigIdleState
    /\ MulUnused

WddFail(name, line) == wdd' = [wdd EXCEPT !.pc = "error", !.error = <<name, line>>]

\* Lines 156-161: the probe of the 4-argument call, and the normalization.
WddNormalize ==
    /\ wdd.pc = "idle"
    /\ LET image_y == image_size[1]
           image_x == image_size[2]
       IN  IF ~MakeProbeAccepts(probeArgs, 4)
           THEN WddFail("TypeError", 158)
           ELSE LET electron_beam == MakeProbe(image_x, image_y, optics)
                    diffractogram == DiffractogramIntensity(data4D)
                    mainbeam == MainbeamIntensity(electron_beam)
                IN  wdd' = [wdd EXCEPT !.pc = "wigner",
                                       !.diffractogram_intensity = diffractogram,
                                       !.mainbeam_intensity = mainbeam,
                                       !.intensity_changer = IntensityChanger(mainbeam, diffractogram)]
    /\ UNCHANGED <<data4D, mulVars, wigVars>>

\* Line 162: fft_wigner_probe(aperture_mrad, voltage, (image_x, image_y),
\* calibration_pm, intensity_changer).
WddWigner ==
    /\ wdd.pc = "wigner"
    /\ LET image_y == image_size[1]
           image_x == image_size[2]
           w == fft_wigner_probe(probeArgs, optics, <<image_x, image_y>>, wdd.intensity_changer)
           scale == WignerScale(wdd.intensity_changer)
       IN  IF w.pc = "TypeError"
           THEN WddFail("TypeError", 95)
           ELSE wdd' = [wdd EXCEPT !.pc = "transform",
                                   !.wigner_beam = [shape |-> w.shape, el |-> w.el,
                                                    num |-> scale[1], den |-> scale[2]]]
    /\ UNCHANGED <<data4D, mulVars, wigVars>>

\* Lines 163-165.
WddTransform ==
    /\ wdd.pc = "transform"
    /\ LET dataFT == FftDetector(data4D)
       IN  wdd' = [wdd EXCEPT !.pc = "combine",
                              !.dataIFT = IfftLeading(dataFT),
                              !.inverse_wigner = IfftLeading(wdd.wigner_beam)]
    /\ UNCHANGED <<data4D, mulVars, wigVars>>

\* Line 166: psi_multiply(dataIFT, np.conj(inverse_wigner)), then sparse4D
\* of the product with np.abs(inverse_wigner) ** 2.
WddCombine ==
    /\ wdd.pc = "combine"
    /\ LET m == psi_multiply(wdd.dataIFT, ConjTensor(wdd.inverse_wigner))
           product == [shape |-> wdd.dataIFT.shape, el |-> m.out,
                       num |-> wdd.dataIFT.num * wdd.inverse_wigner.num,
                       den |-> wdd.dataIFT.den * wdd.inverse_wigner.den]
           ref == AbsSqTensor(wdd.inverse_wigner)
       IN  IF m.pc # "returned"
           THEN WddFail(m.pc, 38)
           ELSE \E threshold \in Thresholds(ref) :
                   wdd' = [wdd EXCEPT !.pc = "extract",
                                      !.multiplied = product,
                                      !.reference = ref,
                                      !.Psi_Wigner = Sparse4D(product, ref, threshold)]
    /\ UNCHANGED <<data4D, mulVars, wigVars>>

\* Lines 167-168: Psi_Wigner[1 + int(wig_shape[0]/2), 1 + int(wig_shape[1]/2), :, :]
WddExtract ==
    /\ wdd.pc = "extract"
    /\ LET wig_shape == wdd.Psi_Wigner.shape
           i0 == 1 + (wig_shape[1] \div 2)
           i1 == 1 + (wig_shape[2] \div 2)
       IN  IF i0 >= wig_shape[1] \/ i1 >= wig_shape[2]
           THEN WddFail("IndexError", 168)
           ELSE wdd' = [wdd EXCEPT !.pc = "test_beam",
                                   !.fixed = <<0, 1>>,
                                   !.index = <<i0, i1>>,
                                   !.slice = [shape |-> <<wig_shape[3], wig_shape[4]>>,
                                              el |-> [ij \in Idx2(<<wig_shape[3], wig_shape[4]>>) |->
                                                        wdd.Psi_Wigner.el[<<i0, i1, ij[1], ij[2]>>]]]]
    /\ UNCHANGED <<data4D, mulVars, wigVars>>

\* Line 168: the name test_beam is bound nowhere in the module, so its
\* evaluation raises NameError; lines 168-169 never produce wigner_deconv.
WddTestBeam ==
    /\ wdd.pc = "test_beam"
    /\ WddFail("NameError", 168)
    /\ UNCHANGED <<data4D, mulVars, wigVars>>

WddNext == WddNormalize \/ WddWigner \/ WddTransform \/ WddCombine \/ WddExtract \/ WddTestBeam

WddSpec == WddInit /\ [][WddNext]_vars

\* The sum of all the intensities of the dataset.
TotalIntensity ==
    ISum([idx \in DOMAIN data4D.el |-> data4D.el[idx][1]], DOMAIN data4D.el)

\* The positions of wdd after the normalization of lines 159-161.
AfterNormalization == {"wigner", "transform", "combine", "extract", "test_beam"}

\* The scan dimensions equal the detector dimensions and every axis has at
\* least three elements: the datasets on which neither the shapes handed to
\* psi_multiply nor the index 1 + n/2 of the extraction can fail.
RoomyDataset ==
    /\ <<data4D.shape[1], data4D.shape[2]>> = image_size
    /\ \A k \in 1..4 : data4D.shape[k] >= 3

\* C2: on a dataset whose detector dimensions equal image_size and whose mean
\* diffraction intensity is positive, wdd never ends in an error.  Stated
\* for the most favourable case: make_probe accepts both of its calls and
\* the dataset is roomy.
C2_ValidInputNeverFails ==
    (TotalIntensity > 0 /\ probeArgs = {4, 5} /\ RoomyDataset) => wdd.pc # "error"

\* C3: when the mean diffraction intensity is zero, wdd stops at the
\* normalization step: it never goes on to fft_wigner_probe or to a later
\* stage, and the scalar it computed for fft_wigner_probe is never inf.
C3_ZeroMeanStopsAtNormalization ==
    (TotalIntensity = 0) =>
        /\ wdd.pc \notin AfterNormalization
        /\ wdd.intensity_changer.kind = "finite"
        /\ (wdd.pc = "error") => wdd.error[2] \notin {95, 38, 168}

\* C6: the two tensors given to psi_multiply have identical shape, whatever
\* the scan dimensions, and Psi_Wigner has the shape of the dataset.
C6_CombinedShapesAgree ==
    (TotalIntensity > 0) =>
        /\ (wdd.dataIFT # NoTensor) => wdd.dataIFT.shape = wdd.inverse_wigner.shape
        /\ (wdd.Psi_Wigner # NoTensor) => wdd.Psi_Wigner.shape = data4D.shape

\* C7: the normalization scalar is sqrt(mainbeam / D), mainbeam the sum of
\* the squared magnitudes of the probe and D the mean over the scan positions
\* of the sums over the detector frame: D = total / (scan_y * scan_x).
C7_NormalizationScalar ==
    (wdd.pc \in AfterNormalization /\ TotalIntensity > 0) =>
        LET scans == data4D.shape[1] * data4D.shape[2]
            probe == MakeProbe(image_size[2], image_size[1], optics)
            mainbeam == ISum([idx \in DOMAIN probe.el |-> AbsSq(probe.el[idx])[1]],
                             DOMAIN probe.el)
        IN  /\ wdd.diffractogram_intensity.n * scans
                  = TotalIntensity * wdd.diffractogram_intensity.d
            /\ wdd.intensity_changer.n * TotalIntensity
                  = mainbeam * scans * wdd.intensity_changer.d

\* C8: every element of the tensor wdd gives to sparse4D is
\* dataIFT[idx] * conj(inverse_wigner[idx]), the Inverse Wigner Tensor being
\* conjugated exactly once, and the thresholding reference is
\* |inverse_wigner|^2.
C8_ConjugatedOnce ==
    (wdd.multiplied # NoTensor /\ wdd.dataIFT.shape = wdd.inverse_wigner.shape) =>
        /\ wdd.reference = AbsSqTensor(wdd.inverse_wigner)
        /\ \A idx \in Idx4(wdd.multiplied.shape) :
              wdd.multiplied.el[idx] =
                  CMul(wdd.dataIFT.el[idx], CConj(wdd.inverse_wigner.el[idx]))

\* C9: the slice wdd extracts fixes the axes 2 and 3 of Psi_Wigner at index
\* floor(n/2) + 1, n the length of that axis, and keeps the axes 0 and 1 whole.
C9_SliceFixesShiftAxes ==
    (wdd.pc = "test_beam" /\ TotalIntensity > 0 /\ RoomyDataset) =>
        LET shape == wdd.Psi_Wigner.shape
            c2 == 1 + (shape[3] \div 2)
            c3 == 1 + (shape[4] \div 2)
        IN  /\ wdd.slice.shape = <<shape[1], shape[2]>>
            /\ \A a \in 0..(shape[1] - 1), b \in 0..(shape[2] - 1) :
                  wdd.slice.el[<<a, b>>] = wdd.Psi_Wigner.el[<<a, b, c2, c3>>]
            /\ wdd.fixed = <<2, 3>>
            /\ wdd.index = <<c2, c3>>

\* ----------------------------------------------- psi_multiply, stepwise
MulInit ==
    /\ \E s1 \in Shapes4, seed \in 0..MaxSeed : data_1 = Pattern4(s1, seed)
    /\ \E s2 \in Shapes4, seed \in 0..MaxSeed : data_2 = Pattern4(s2, seed)
    /\ mul = [MulStart(data_1) EXCEPT !.pc = "idle"]
    /\ WigUnused
    /\ WddUnused

\* Lines 34-35.
MulCall ==
    /\ mul.pc = "idle"
    /\ mul' = MulStart(data_1)
    /\ UNCHANGED <<data_1, data_2, wigVars, wddVars>>

\* Lines 36-39.
MulLoop ==
    /\ mul.pc = "loop"
    /\ mul' = MulIterate(data_1, data_2, mul)
    /\ UNCHANGED <<data_1, data_2, wigVars, wddVars>>

\* Lines 36-38 compiled by numba.jit without bounds checks: a slice of data_2
\* outside its extent is not refused, it reads whatever lies there (here one
\* stray value per call).
MulUncheckedRead ==
    /\ mul.pc = "loop"
    /\ mul.jj < data_1.shape[4]
    /\ ~SliceInRange(data_2.shape, mul.ii, mul.jj)
    /\ SliceBroadcasts(data_1.shape, data_2.shape)
    /\ \E g \in 1..Len(Palette) :
          /\ mul.stray \in {0, g}
          /\ LET nx == MulNext(data_1.shape, mul.ii, mul.jj)
             IN  mul' = [mul EXCEPT !.ii = nx[1], !.jj = nx[2], !.stray = g,
                           !.out = [idx \in Idx4(data_1.shape) |->
                                      IF idx[3] = mul.ii /\ idx[4] = mul.jj
                                      THEN MultiplyConj(data_1.el[idx], Palette[g])
                                      ELSE mul.out[idx]]]
    /\ UNCHANGED <<data_1, data_2, wigVars, wddVars>>

MulNextStep == MulCall \/ MulLoop \/ MulUncheckedRead

MulSpec == MulInit /\ [][MulNextStep]_vars

MulErrors == {"IndexError", "ValueError"}

\* C1: for data_1 and data_2 of identical shape psi_multiply ends without an
\* error and returns a tensor of that shape whose element at every index is
\* data_1[idx] * conj(data_2[idx]); psi_multiply(A, A) is real and
\* non-negative at every index.
C1_ConjugateProduct ==
    (data_1.shape = data_2.shape) =>
        /\ mul.pc \notin MulErrors
        /\ (mul.pc = "returned") =>
              /\ DOMAIN mul.out = Idx4(data_1.shape)
              /\ \A idx \in Idx4(data_1.shape) :
                    mul.out[idx] = CMul(data_1.el[idx], CConj(data_2.el[idx]))
              /\ (data_1 = data_2) =>
                    \A idx \in Idx4(data_1.shape) : IsNonNegReal(mul.out[idx])

\* C1 witness: a returned product of two different tensors of 16 elements
\* with an element that is not real.
C1_Witness ==
    /\ mul.pc = "returned"
    /\ data_1.shape = <<2, 2, 2, 2>>
    /\ data_2.shape = data_1.shape
    /\ data_1 # data_2
    /\ \E idx \in Idx4(data_1.shape) : ~IsReal(mul.out[idx])

\* C4: psi_multiply of two tensors whose shapes differ ends in an error and
\* returns no tensor.
C4_MismatchIsError ==
    (data_1.shape # data_2.shape) => mul.pc # "returned"

====
